---- MODULE Spec2Model ----
(***************************************************************************)
(* State-machine model of the linear-referencing toolbox scripts:          *)
(*   frange                    (Scripts/createPointEventTable.py et al.)   *)
(*   create_point_event_table  (Scripts/createPointEventTable.py)          *)
(*   create_route_by_length    (Scripts/create_route_by_length.py)         *)
(*   create_cross_section      (Scripts/stationPointsAndCrossSections.py)  *)
(*   and the tools' execute methods that compose them.                     *)
(*                                                                         *)
(* Numbers are exact: measures, lengths and coordinates are integers, the  *)
(* input lines are axis-aligned and angles are multiples of 90 degrees, so *)
(* every length, interpolation, cosine and sine the code computes is an    *)
(* integer.  Floating-point rounding is not modelled.                      *)
(***************************************************************************)
EXTENDS Integers, Sequences, FiniteSets, TLC

\* ---------------------------------------------------------------- bounds
\* frange is exercised on start, stop in 0..MaxStop and step in -MaxStep..MaxStep
MaxStop == 10
MaxStep == 3

\* at most MaxLines line features in the input dataset
MaxLines == 2
\* at most MaxPerRoute events are expected on one route; a cursor that never
\* stops inserting is cut off at RowCap rows
MaxPerRoute == 4

VARIABLES
    fr,                  \* one frange generator under test: its arguments, its
                         \* local r, the values yielded, the previous call's values
    tool,                \* the tool whose execute method runs
    pc,                  \* position in that method
    in_features,         \* the input dataset: a sequence of line features
    in_fields,           \* the attribute fields of the input dataset
    route_id_field_name, \* the route identifier field parameter
    fields,              \* the attribute fields of the datasets the run creates
    route_id_field,      \* what get_field returned last, <<>> before any call
    measure_interval,    \* the station separation parameter
    cross_section_width, \* the cross-section width parameter
    normal_turn,         \* the engine's NORMAL angle, as a turn from the tangent
    exists,              \* the datasets that exist, by name
    the_line,            \* in_memory copy made by create_route_by_length
    out_route,           \* the route feature class
    event_tbl,           \* the point event table
    out_station,         \* the station point feature class
    out_xs,              \* the cross-section feature class
    line_event_tbl,      \* the line event table of CreateLineEventTable
    cursors,             \* the open cursors, innermost `with` last
    raised_at,           \* where an error was raised, "" while none was
    run,                 \* 1 in a first run of the tool, 2 in a repeated run
    prev,                \* the station points the first run left
    cur,                 \* index of the row the open search/update cursor is on
    r                    \* the local r of the frange generator being consumed

vars == <<fr, tool, pc, in_features, in_fields, route_id_field_name, fields,
          route_id_field, measure_interval, cross_section_width,
          normal_turn, exists, the_line, out_route, event_tbl, out_station,
          out_xs, line_event_tbl, cursors, raised_at, run, prev, cur, r>>

pipe_vars == <<tool, pc, in_features, in_fields, route_id_field_name, fields,
               route_id_field, measure_interval, cross_section_width,
               normal_turn, exists, the_line, out_route, event_tbl, out_station,
               out_xs, line_event_tbl, cursors, raised_at, run, prev, cur, r>>

Abs(n) == IF n < 0 THEN -n ELSE n

\* ------------------------------------------------------------- input data
\* A vertex is <<x, y, m>>; a feature is [id, shape].  The M values of the
\* input features are whatever the dataset already carries.  In a multi-part
\* line the first vertex of every further part is <<x, y, m, "part">>.
PX(p) == p[1]
PY(p) == p[2]
PM(p) == p[3]

LineA == [id |-> "A", shape |-> << <<0, 0, 10>>, <<100, 0, 60>> >>]
LineB == [id |-> "B", shape |-> << <<0, 0, 0>>, <<0, 50, 50>> >>]
LineC == [id |-> "C", shape |-> << <<100, 0, 60>>, <<0, 0, 10>> >>]
LineD == [id |-> "D", shape |-> << <<50, 50, 0>>, <<50, -50, 0>> >>]
LineE == [id |-> "E", shape |-> << <<0, 0, 5>>, <<40, 0, 45>>, <<40, 30, 75>> >>]
LineF == [id |-> "F", shape |-> << <<0, 0, 0>>, <<40, 0, 0>>,
                                   <<60, 0, 0, "part">>, <<100, 0, 0>> >>]
Lines == {LineA, LineB, LineC, LineD, LineE, LineF}

StartsPart(p) == Len(p) = 4
IsMultipart(shape) == \E k \in DOMAIN shape : StartsPart(shape[k])

\* the order of the identifiers under ORDER BY
IdRank(id) ==
    CASE id = "A" -> 1 [] id = "B" -> 2 [] id = "C" -> 3 [] id = "D" -> 4
      [] id = "E" -> 5 [] id = "F" -> 6

\* "Line names must be unique within the input polyline feature class."
Datasets ==
    {s \in UNION {[1..n -> Lines] : n \in 1..MaxLines} :
        \A i, j \in DOMAIN s : i # j => s[i].id # s[j].id}

Intervals == {-25, 0, 25, 30}
Widths == {-10, 0, 4, 10}
Tools == {"CreatePointEventTable", "CreateRouteByLength",
          "StationPointsAndCrossSections", "CreateLineEventTable",
          "PointsAlongLine"}

\* ------------------------------------------------------------- fields
\* A field name is the sequence of its characters; a field is [name, type, length].
N_ID == <<"I", "D">>
N_RID == <<"R", "I", "D">>
N_NAME == <<"N", "A", "M", "E">>
N_Measure == <<"M", "e", "a", "s", "u", "r", "e">>
N_FromMeasure == <<"F", "r", "o", "m">> \o N_Measure
N_ToMeasure == <<"T", "o">> \o N_Measure
N_LOC_ANGLE == <<"L", "O", "C", "_", "A", "N", "G", "L", "E">>

F_ID == [name |-> N_ID, type |-> "SmallInteger", length |-> 2]
F_RID == [name |-> N_RID, type |-> "String", length |-> 20]
DoubleField(name) == [name |-> name, type |-> "Double", length |-> 8]

FieldLists == {<<F_RID>>, <<F_ID>>, <<F_ID, F_RID>>, <<F_RID, F_ID>>}
FieldNames == {N_RID, N_ID, N_NAME}

\* `a in b` on two strings: a occurs in b
Contains(b, a) ==
    \E i \in 0..(Len(b) - Len(a)) : SubSeq(b, i + 1, i + Len(a)) = a

\* [f for f in arcpy.Describe(dataset).fields if f.name in field_name]
FieldMatches(dataset_fields, field_name) ==
    SelectSeq(dataset_fields, LAMBDA f : Contains(field_name, f.name))

\* ...[0]
get_field(dataset_fields, field_name) ==
    FieldMatches(dataset_fields, field_name)[1]

\* the engine finds a field by its name
HasField(dataset_fields, field_name) ==
    \E k \in DOMAIN dataset_fields : dataset_fields[k].name = field_name

FieldNamed(dataset_fields, field_name) ==
    SelectSeq(dataset_fields, LAMBDA f : f.name = field_name)[1]

\* AddField(out, route_id_field_name, route_id_field.type,
\*          field_length=route_id_field.length)
IdColumn(field_name, field) ==
    [name |-> field_name, type |-> field.type, length |-> field.length]

NoFields ==
    [the_line |-> <<>>, out_route |-> <<>>, event_tbl |-> <<>>,
     out_station |-> <<>>, out_xs |-> <<>>, line_event_tbl |-> <<>>]

\* ------------------------------------------------------------- geometry
\* line.firstPoint.M, line.lastPoint.M
FirstMeasure_zero(shape) == 0
FirstMeasure(shape) == PM(shape[1])
LastMeasure(shape) == PM(shape[Len(shape)])

\* planar distance between two vertices; the jump to a new part is no segment
SegLength(p, q) ==
    LET dx == PX(q) - PX(p)
        dy == PY(q) - PY(p)
    IN  IF StartsPart(q) THEN 0
        ELSE IF dy = 0 THEN Abs(dx)
        ELSE IF dx = 0 THEN Abs(dy)
        ELSE CHOOSE d \in 0..(Abs(dx) + Abs(dy)) : d * d = dx * dx + dy * dy

\* distance along the shape from its first vertex to vertex k
RECURSIVE Along(_, _)
Along(shape, k) ==
    IF k <= 1 THEN 0 ELSE Along(shape, k - 1) + SegLength(shape[k - 1], shape[k])

\* SHAPE@LENGTH
ShapeLength(shape) == Along(shape, Len(shape))

\* ---------------------------------------------------------------- frange
\* `while r < stop`
FrangeTest_inclusive(v, stop) == v <= stop
FrangeTest(v, stop) == v < stop

\* `if step > 0: r += step  else: r -= step`
FrangeStep_add(v, step) == v + step
FrangeStep(v, step) == IF step > 0 THEN v + step ELSE v - step

\* `r = start`: every call starts from its own argument
FrangeStart(start) == start

\* A generator that never returns is cut off after YieldCap values.
YieldCap == MaxStop + 1

FrangeInit ==
    /\ \E start \in 0..MaxStop, stop \in 0..MaxStop, step \in -MaxStep..MaxStep :
        fr = [start |-> start, stop |-> stop, step |-> step,
              r |-> FrangeStart(start), pc |-> "loop", out |-> <<>>,
              prev |-> <<>>, call |-> 1]
    /\ tool = "frange"
    /\ pc = "idle"
    /\ in_features = <<>>
    /\ in_fields = <<>>
    /\ route_id_field_name = <<>>
    /\ fields = NoFields
    /\ route_id_field = <<>>
    /\ measure_interval = 0
    /\ cross_section_width = 0
    /\ normal_turn = 90
    /\ exists = {}
    /\ the_line = <<>>
    /\ out_route = <<>>
    /\ event_tbl = <<>>
    /\ out_station = <<>>
    /\ out_xs = <<>>
    /\ line_event_tbl = <<>>
    /\ cursors = <<>>
    /\ raised_at = ""
    /\ run = 1
    /\ prev = <<>>
    /\ cur = 0
    /\ r = 0

\* one turn of the loop: the test holds, r is yielded, then advanced
FrangeYield ==
    /\ fr.pc = "loop"
    /\ FrangeTest(fr.r, fr.stop)
    /\ Len(fr.out) < YieldCap
    /\ fr' = [fr EXCEPT !.out = Append(@, fr.r),
                        !.r = FrangeStep(fr.r, fr.step)]
    /\ UNCHANGED pipe_vars

\* the test fails: the generator is exhausted
FrangeReturn ==
    /\ fr.pc = "loop"
    /\ ~FrangeTest(fr.r, fr.stop)
    /\ fr' = [fr EXCEPT !.pc = "done"]
    /\ UNCHANGED pipe_vars

\* the caller calls frange a second time with the same arguments
FrangeCallAgain ==
    /\ fr.pc = "done"
    /\ fr.call = 1
    /\ fr' = [fr EXCEPT !.pc = "loop", !.call = 2, !.prev = fr.out,
                        !.out = <<>>, !.r = FrangeStart(fr.start)]
    /\ UNCHANGED pipe_vars

FrangeNext == FrangeYield \/ FrangeReturn \/ FrangeCallAgain

\* The interpreter keeps running a generator that is being consumed.
FrangeSpec == FrangeInit /\ [][FrangeNext]_vars /\ WF_vars(FrangeNext)

\* --------------------------------------------------- the geospatial engine
\* arcpy.lr.CreateRoutes(..., measure_source='TWO_FIELDS'): every vertex gets
\* the measure interpolated between the row's two fields by distance along
RouteOf(row) ==
    LET from == row.FromMeasure[1]
        to == row.ToMeasure[1]
        len == ShapeLength(row.shape)
    IN  [id |-> row.id,
         shape |-> [k \in DOMAIN row.shape |->
                      [row.shape[k] EXCEPT ![3] =
                          from + ((to - from) * Along(row.shape, k)) \div len]]]

CreateRoutes(rows) == [i \in DOMAIN rows |-> RouteOf(rows[i])]

\* the segment of a route that carries measure m
SegmentAt(shape, m) ==
    LET ks == {k \in 1..(Len(shape) - 1) :
                 /\ ~StartsPart(shape[k + 1])
                 /\ PM(shape[k]) <= m /\ m <= PM(shape[k + 1])}
    IN  CHOOSE k \in ks : \A j \in ks : k <= j

\* the point at measure m, interpolated along its segment
PointAt(shape, m) ==
    LET k == SegmentAt(shape, m)
        a == shape[k]
        b == shape[k + 1]
        span == PM(b) - PM(a)
    IN  <<PX(a) + ((PX(b) - PX(a)) * (m - PM(a))) \div span,
          PY(a) + ((PY(b) - PY(a)) * (m - PM(a))) \div span>>

\* the direction of the route at measure m, in degrees from +X, counter-clockwise
TangentAt(shape, m) ==
    LET k == SegmentAt(shape, m)
        dx == PX(shape[k + 1]) - PX(shape[k])
        dy == PY(shape[k + 1]) - PY(shape[k])
    IN  CASE dy = 0 /\ dx > 0 -> 0
          [] dx = 0 /\ dy > 0 -> 90
          [] dy = 0 /\ dx < 0 -> 180
          [] dx = 0 /\ dy < 0 -> 270

RouteWithId(routes, id) ==
    routes[CHOOSE i \in DOMAIN routes : routes[i].id = id]

\* arcpy.lr.MakeRouteEventLayer(..., add_angle_field=True, angle_type="NORMAL")
\* followed by CopyFeatures: one point per event, with the angle of the normal
LocateEvent(routes, ev) ==
    LET shape == RouteWithId(routes, ev.id).shape
    IN  [id |-> ev.id, Measure |-> ev.Measure,
         xy |-> PointAt(shape, ev.Measure),
         LOC_ANGLE |-> (TangentAt(shape, ev.Measure) + normal_turn) % 360]

LocateEvents(routes, events) ==
    [i \in DOMAIN events |-> LocateEvent(routes, events[i])]

\* sql_clause 'ORDER BY <route id>, Measure'
RowBefore(a, b) ==
    \/ IdRank(a.id) < IdRank(b.id)
    \/ a.id = b.id /\ a.Measure < b.Measure

InsertRow(rows, row) ==
    LET n == Cardinality({i \in DOMAIN rows : ~RowBefore(row, rows[i])})
    IN  SubSeq(rows, 1, n) \o <<row>> \o SubSeq(rows, n + 1, Len(rows))

OrderBy_stored(rows) == rows
RECURSIVE OrderBy(_)
OrderBy(rows) ==
    IF rows = <<>> THEN <<>>
    ELSE InsertRow(OrderBy(SubSeq(rows, 1, Len(rows) - 1)), rows[Len(rows)])

\* math.cos(math.radians(a)), math.sin(math.radians(a))
CosDeg(a) ==
    CASE a % 360 = 0 -> 1 [] a % 360 = 90 -> 0
      [] a % 360 = 180 -> -1 [] a % 360 = 270 -> 0

SinDeg(a) ==
    CASE a % 360 = 0 -> 0 [] a % 360 = 90 -> 1
      [] a % 360 = 180 -> 0 [] a % 360 = 270 -> -1

\* ------------------------------------------------------------- cursors
\* `with arcpy.da.XCursor(...) as c:` - the cursor is open inside the block
OpenCursor(stack, dataset, mode) == Append(stack, [on |-> dataset, mode |-> mode])

\* leaving the `with` blocks, at their end or by an exception passing
\* through them, releases the cursors they opened
ExitWith_leak(stack) == stack
ExitWith(stack) == <<>>

\* arcpy.management.CopyFeatures onto an output (overwriteOutput is set by
\* the tools that run it on an output that may exist)
CopyOver_append(existing, new) == existing \o new
CopyOver(existing, new) == new

\* ------------------------------------------------- create_route_by_length
\* CreateUniqueName, CopyFeatures, AddField 'FromMeasure', AddField 'ToMeasure'
CopyWithMeasureFields(features) ==
    [i \in DOMAIN features |->
        [id |-> features[i].id, shape |-> features[i].shape,
         FromMeasure |-> <<>>, ToMeasure |-> <<>>]]

\* row[0] = 0; row[1] = row[2]; cursor.updateRow(row)
UpdatedRow_keepM(row) ==
    [row EXCEPT !.FromMeasure = <<FirstMeasure(row.shape)>>,
                !.ToMeasure = <<LastMeasure(row.shape)>>]
UpdatedRow(row) ==
    [row EXCEPT !.FromMeasure = <<0>>,
                !.ToMeasure = <<ShapeLength(row.shape)>>]

CrlCopy ==
    /\ pc = "crl_copy"
    /\ the_line' = CopyWithMeasureFields(in_features)
    /\ fields' = [fields EXCEPT !.the_line =
                    in_fields \o <<DoubleField(N_FromMeasure),
                                   DoubleField(N_ToMeasure)>>]
    /\ exists' = exists \cup {"the_line"}
    /\ cursors' = OpenCursor(cursors, "the_line", "update")
    /\ cur' = 1
    /\ pc' = "crl_update"
    /\ UNCHANGED <<fr, tool, in_features, in_fields, route_id_field_name,
                   route_id_field, measure_interval, cross_section_width,
                   normal_turn, out_route, event_tbl, out_station, out_xs,
                   line_event_tbl, raised_at, run, prev, r>>

\* the cursor's updates reach the rows of the input as well
CrlUpdateRow_input ==
    /\ pc = "crl_update"
    /\ cur <= Len(the_line)
    /\ the_line' = [the_line EXCEPT ![cur] = UpdatedRow(the_line[cur])]
    /\ in_features' =
          [in_features EXCEPT ![cur].shape =
              [k \in DOMAIN @ |-> <<PX(@[k]), PY(@[k]), Along(@, k)>>]]
    /\ cur' = cur + 1
    /\ UNCHANGED <<fr, tool, pc, in_fields, route_id_field_name, fields,
                   route_id_field, measure_interval, cross_section_width,
                   normal_turn, exists, out_route, event_tbl, out_station,
                   out_xs, line_event_tbl, cursors, raised_at, run, prev, r>>

CrlUpdateRow ==
    /\ pc = "crl_update"
    /\ cur <= Len(the_line)
    /\ the_line' = [the_line EXCEPT ![cur] = UpdatedRow(the_line[cur])]
    /\ cur' = cur + 1
    /\ UNCHANGED <<fr, tool, pc, in_features, in_fields, route_id_field_name,
                   fields, route_id_field, measure_interval,
                   cross_section_width, normal_turn, exists, out_route,
                   event_tbl, out_station, out_xs, line_event_tbl, cursors,
                   raised_at, run, prev, r>>

CrlUpdateEnd ==
    /\ pc = "crl_update"
    /\ cur > Len(the_line)
    /\ cursors' = ExitWith(cursors)
    /\ pc' = "crl_routes"
    /\ UNCHANGED <<fr, tool, in_features, in_fields, route_id_field_name,
                   fields, route_id_field, measure_interval,
                   cross_section_width, normal_turn, exists, the_line,
                   out_route, event_tbl, out_station, out_xs, line_event_tbl,
                   raised_at, run, prev, cur, r>>

CrlCreateRoutes ==
    /\ pc = "crl_routes"
    /\ IF HasField(fields.the_line, route_id_field_name)
       THEN /\ out_route' = CreateRoutes(the_line)
            /\ fields' = [fields EXCEPT !.out_route =
                            <<FieldNamed(fields.the_line,
                                         route_id_field_name)>>]
            /\ exists' = exists \cup {"out_route"}
            /\ pc' = "crl_delete"
            /\ raised_at' = raised_at
       ELSE /\ out_route' = out_route
            /\ fields' = fields
            /\ exists' = exists
            /\ pc' = "aborted"
            /\ raised_at' = pc
    /\ UNCHANGED <<fr, tool, in_features, in_fields, route_id_field_name,
                   route_id_field, measure_interval, cross_section_width,
                   normal_turn, the_line, event_tbl, out_station, out_xs,
                   line_event_tbl, cursors, run, prev, cur, r>>

\* arcpy.management.Delete(the_line); return route_feature_class
CrlDelete ==
    /\ pc = "crl_delete"
    /\ the_line' = <<>>
    /\ fields' = [fields EXCEPT !.the_line = <<>>]
    /\ exists' = exists \ {"the_line"}
    /\ pc' = IF tool = "CreateRouteByLength" THEN "done" ELSE "pet_field"
    /\ UNCHANGED <<fr, tool, in_features, in_fields, route_id_field_name,
                   route_id_field, measure_interval, cross_section_width,
                   normal_turn, out_route, event_tbl, out_station, out_xs,
                   line_event_tbl, cursors, raised_at, run, prev, cur, r>>

\* ----------------------------------------------- create_point_event_table
\* the in_routes argument: the tool's input, or the route feature class
InRoutes ==
    IF tool = "CreatePointEventTable" THEN in_features ELSE out_route

InRoutesName ==
    IF tool = "CreatePointEventTable" THEN "in_features" ELSE "out_route"

InRoutesFields ==
    IF tool = "CreatePointEventTable" THEN in_fields ELSE fields.out_route

RowCap == MaxLines * MaxPerRoute

\* route_id_field = get_field(in_routes, route_id_field_name): an IndexError
\* when no field matches
PetGetField ==
    /\ pc = "pet_field"
    /\ IF FieldMatches(InRoutesFields, route_id_field_name) = <<>>
       THEN /\ route_id_field' = route_id_field
            /\ pc' = "aborted"
            /\ raised_at' = pc
       ELSE /\ route_id_field' =
                   <<get_field(InRoutesFields, route_id_field_name)>>
            /\ pc' = "pet_create"
            /\ raised_at' = raised_at
    /\ UNCHANGED <<fr, tool, in_features, in_fields, route_id_field_name,
                   fields, measure_interval, cross_section_width, normal_turn,
                   exists, the_line, out_route, event_tbl, out_station,
                   out_xs, line_event_tbl, cursors, run, prev, cur, r>>

\* CreateTable, AddField, AddField, and the two cursors are opened; the search
\* cursor raises when in_routes has no field of that name
PetCreate ==
    /\ pc = "pet_create"
    /\ event_tbl' = <<>>
    /\ fields' = [fields EXCEPT !.event_tbl =
                    <<IdColumn(route_id_field_name, route_id_field[1]),
                      DoubleField(N_Measure)>>]
    /\ exists' = exists \cup {"event_tbl"}
    /\ IF HasField(InRoutesFields, route_id_field_name)
       THEN /\ cursors' = OpenCursor(OpenCursor(cursors, "event_tbl", "insert"),
                                     InRoutesName, "search")
            /\ cur' = 1
            /\ pc' = "pet_rows"
            /\ raised_at' = raised_at
       ELSE /\ cursors' = ExitWith(OpenCursor(cursors, "event_tbl", "insert"))
            /\ cur' = cur
            /\ pc' = "aborted"
            /\ raised_at' = pc
    /\ UNCHANGED <<fr, tool, in_features, in_fields, route_id_field_name,
                   route_id_field, measure_interval, cross_section_width,
                   normal_turn, the_line, out_route, out_station, out_xs,
                   line_event_tbl, run, prev, r>>

\* `for row in cursor`: the next route; frange is called on its measures
PetNextRow ==
    /\ pc = "pet_rows"
    /\ cur <= Len(InRoutes)
    /\ r' = FrangeStart(FirstMeasure(InRoutes[cur].shape))
    /\ pc' = "pet_frange"
    /\ UNCHANGED <<fr, tool, in_features, in_fields, route_id_field_name,
                   fields, route_id_field, measure_interval,
                   cross_section_width, normal_turn, exists, the_line,
                   out_route, event_tbl, out_station, out_xs, line_event_tbl,
                   cursors, raised_at, run, prev, cur>>

\* the generator yields a measure: icursor.insertRow((row[0], measure))
PetInsert ==
    /\ pc = "pet_frange"
    /\ FrangeTest(r, LastMeasure(InRoutes[cur].shape))
    /\ Len(event_tbl) < RowCap
    /\ event_tbl' = Append(event_tbl, [id |-> InRoutes[cur].id, Measure |-> r])
    /\ r' = FrangeStep(r, measure_interval)
    /\ UNCHANGED <<fr, tool, pc, in_features, in_fields, route_id_field_name,
                   fields, route_id_field, measure_interval,
                   cross_section_width, normal_turn, exists, the_line,
                   out_route, out_station, out_xs, line_event_tbl, cursors,
                   raised_at, run, prev, cur>>

\* the generator is exhausted: on to the next route
PetExhausted ==
    /\ pc = "pet_frange"
    /\ ~FrangeTest(r, LastMeasure(InRoutes[cur].shape))
    /\ cur' = cur + 1
    /\ pc' = "pet_rows"
    /\ UNCHANGED <<fr, tool, in_features, in_fields, route_id_field_name,
                   fields, route_id_field, measure_interval,
                   cross_section_width, normal_turn, exists, the_line,
                   out_route, event_tbl, out_station, out_xs, line_event_tbl,
                   cursors, raised_at, run, prev, r>>

\* no route is left: the cursors are closed; return out_table
PetReturn ==
    /\ pc = "pet_rows"
    /\ cur > Len(InRoutes)
    /\ cursors' = ExitWith(cursors)
    /\ pc' = IF tool = "CreatePointEventTable" THEN "done" ELSE "locate"
    /\ UNCHANGED <<fr, tool, in_features, in_fields, route_id_field_name,
                   fields, route_id_field, measure_interval,
                   cross_section_width, normal_turn, exists, the_line,
                   out_route, event_tbl, out_station, out_xs, line_event_tbl,
                   raised_at, run, prev, cur, r>>

\* ------------------------------------- StationPointsAndCrossSections.execute
\* MakeRouteEventLayer into 'Point Events', then CopyFeatures
LocatePoints ==
    /\ pc = "locate"
    /\ out_station' = CopyOver(out_station, LocateEvents(out_route, event_tbl))
    /\ fields' = [fields EXCEPT !.out_station =
                    fields.event_tbl \o <<DoubleField(N_LOC_ANGLE)>>]
    /\ exists' = exists \cup {"Point Events", "out_station"}
    /\ pc' = IF tool = "PointsAlongLine" THEN "pal_cleanup" ELSE "xs_create"
    /\ UNCHANGED <<fr, tool, in_features, in_fields, route_id_field_name,
                   route_id_field, measure_interval, cross_section_width,
                   normal_turn, the_line, out_route, event_tbl, out_xs,
                   line_event_tbl, cursors, raised_at, run, prev, cur, r>>

\* --------------------------------------------------- create_cross_section
\* distance = cross_section_width/2.0
HalfWidth_whole(width) == width
HalfWidth(width) == CHOOSE d \in -Abs(width)..Abs(width) : 2 * d = width

FromPoint_swapped(mid, distance, bearing) ==
    <<mid[1] + distance * SinDeg(bearing), mid[2] + distance * CosDeg(bearing)>>
FromPoint(mid, distance, bearing) ==
    <<mid[1] + distance * CosDeg(bearing), mid[2] + distance * SinDeg(bearing)>>

ToPoint(mid, distance, bearing) ==
    <<mid[1] - distance * CosDeg(bearing), mid[2] - distance * SinDeg(bearing)>>

\* arcpy.Polyline(arcpy.Array([from_point, mid_point, to_point]))
ThreePointLine_ends(from_point, mid_point, to_point) == <<from_point, to_point>>
ThreePointLine(from_point, mid_point, to_point) ==
    <<from_point, mid_point, to_point>>

\* CreateFeatureclass, get_field, AddField, AddField, and the cursors are opened
XsCreate ==
    /\ pc = "xs_create"
    /\ out_xs' = <<>>
    /\ fields' = [fields EXCEPT !.out_xs = <<>>]
    /\ exists' = exists \cup {"out_xs"}
    /\ pc' = "xs_field"
    /\ UNCHANGED <<fr, tool, in_features, in_fields, route_id_field_name,
                   route_id_field, measure_interval, cross_section_width,
                   normal_turn, the_line, out_route, event_tbl, out_station,
                   line_event_tbl, cursors, raised_at, run, prev, cur, r>>

\* get_field on the station feature class, AddField, AddField, and the two
\* cursors are opened
XsGetField ==
    /\ pc = "xs_field"
    /\ IF FieldMatches(fields.out_station, route_id_field_name) = <<>>
       THEN /\ route_id_field' = route_id_field
            /\ fields' = fields
            /\ cursors' = cursors
            /\ cur' = cur
            /\ pc' = "aborted"
            /\ raised_at' = pc
       ELSE /\ route_id_field' =
                   <<get_field(fields.out_station, route_id_field_name)>>
            /\ fields' = [fields EXCEPT !.out_xs =
                   <<IdColumn(route_id_field_name,
                              get_field(fields.out_station,
                                        route_id_field_name)),
                     DoubleField(N_Measure)>>]
            /\ cursors' = OpenCursor(OpenCursor(cursors, "out_xs", "insert"),
                                     "out_station", "search")
            /\ cur' = 1
            /\ pc' = "xs_rows"
            /\ raised_at' = raised_at
    /\ UNCHANGED <<fr, tool, in_features, in_fields, route_id_field_name,
                   measure_interval, cross_section_width, normal_turn, exists,
                   the_line, out_route, event_tbl, out_station, out_xs,
                   line_event_tbl, run, prev, r>>

\* `for row in cursor`, in the order of the sql_clause
XsInsert ==
    /\ pc = "xs_rows"
    /\ cur <= Len(out_station)
    /\ LET row == OrderBy(out_station)[cur]
           distance == HalfWidth(cross_section_width)
           bearing == row.LOC_ANGLE
           polyline == ThreePointLine(FromPoint(row.xy, distance, bearing),
                                      row.xy,
                                      ToPoint(row.xy, distance, bearing))
       IN  out_xs' = Append(out_xs, [shape |-> polyline, id |-> row.id,
                                     Measure |-> row.Measure])
    /\ cur' = cur + 1
    /\ UNCHANGED <<fr, tool, pc, in_features, in_fields, route_id_field_name,
                   fields, route_id_field, measure_interval,
                   cross_section_width, normal_turn, exists, the_line,
                   out_route, event_tbl, out_station, line_event_tbl, cursors,
                   raised_at, run, prev, r>>

XsReturn ==
    /\ pc = "xs_rows"
    /\ cur > Len(out_station)
    /\ cursors' = ExitWith(cursors)
    /\ pc' = "done"
    /\ UNCHANGED <<fr, tool, in_features, in_fields, route_id_field_name,
                   fields, route_id_field, measure_interval,
                   cross_section_width, normal_turn, exists, the_line,
                   out_route, event_tbl, out_station, out_xs, line_event_tbl,
                   raised_at, run, prev, cur, r>>

\* ------------------------------------------- CreateLineEventTable.execute
\* icursor.insertRow((row[0], first_measure, last_measure))
LineEventRow_first(row) ==
    [id |-> row.id, FromMeasure |-> FirstMeasure(row.shape),
     ToMeasure |-> FirstMeasure(row.shape)]
LineEventRow(row) ==
    [id |-> row.id, FromMeasure |-> FirstMeasure(row.shape),
     ToMeasure |-> LastMeasure(row.shape)]

\* CreateTable, AddField three times, and the two cursors are opened
ClGetField ==
    /\ pc = "cl_field"
    /\ IF FieldMatches(in_fields, route_id_field_name) = <<>>
       THEN /\ route_id_field' = route_id_field
            /\ pc' = "aborted"
            /\ raised_at' = pc
       ELSE /\ route_id_field' = <<get_field(in_fields, route_id_field_name)>>
            /\ pc' = "cl_create"
            /\ raised_at' = raised_at
    /\ UNCHANGED <<fr, tool, in_features, in_fields, route_id_field_name,
                   fields, measure_interval, cross_section_width, normal_turn,
                   exists, the_line, out_route, event_tbl, out_station,
                   out_xs, line_event_tbl, cursors, run, prev, cur, r>>

\* CreateTable, three AddFields, and the two cursors are opened; the search
\* cursor raises when in_routes has no field of that name
ClCreate ==
    /\ pc = "cl_create"
    /\ line_event_tbl' = <<>>
    /\ fields' = [fields EXCEPT !.line_event_tbl =
                    <<IdColumn(route_id_field_name, route_id_field[1]),
                      DoubleField(N_FromMeasure), DoubleField(N_ToMeasure)>>]
    /\ exists' = exists \cup {"line_event_tbl"}
    /\ IF HasField(in_fields, route_id_field_name)
       THEN /\ cursors' = OpenCursor(OpenCursor(cursors, "line_event_tbl",
                                                "insert"),
                                     "in_features", "search")
            /\ cur' = 1
            /\ pc' = "cl_rows"
            /\ raised_at' = raised_at
       ELSE /\ cursors' = ExitWith(OpenCursor(cursors, "line_event_tbl",
                                              "insert"))
            /\ cur' = cur
            /\ pc' = "aborted"
            /\ raised_at' = pc
    /\ UNCHANGED <<fr, tool, in_features, in_fields, route_id_field_name,
                   route_id_field, measure_interval, cross_section_width,
                   normal_turn, the_line, out_route, event_tbl, out_station,
                   out_xs, run, prev, r>>

ClInsert ==
    /\ pc = "cl_rows"
    /\ cur <= Len(in_features)
    /\ line_event_tbl' = Append(line_event_tbl, LineEventRow(in_features[cur]))
    /\ cur' = cur + 1
    /\ UNCHANGED <<fr, tool, pc, in_features, in_fields, route_id_field_name,
                   fields, route_id_field, measure_interval,
                   cross_section_width, normal_turn, exists, the_line,
                   out_route, event_tbl, out_station, out_xs, cursors,
                   raised_at, run, prev, r>>

ClReturn ==
    /\ pc = "cl_rows"
    /\ cur > Len(in_features)
    /\ cursors' = ExitWith(cursors)
    /\ pc' = "done"
    /\ UNCHANGED <<fr, tool, in_features, in_fields, route_id_field_name,
                   fields, route_id_field, measure_interval,
                   cross_section_width, normal_turn, exists, the_line,
                   out_route, event_tbl, out_station, out_xs, line_event_tbl,
                   raised_at, run, prev, cur, r>>

\* ------------------------------------------------ PointsAlongLine.execute
\* Cleanup: Delete(event_tbl) and Delete('Point Events') where they exist
PalCleanup ==
    /\ pc = "pal_cleanup"
    /\ event_tbl' = <<>>
    /\ fields' = [fields EXCEPT !.event_tbl = <<>>]
    /\ exists' = exists \ {"event_tbl", "Point Events"}
    /\ pc' = "done"
    /\ UNCHANGED <<fr, tool, in_features, in_fields, route_id_field_name,
                   route_id_field, measure_interval, cross_section_width,
                   normal_turn, the_line, out_route, out_station, out_xs,
                   line_event_tbl, cursors, raised_at, run, prev, cur, r>>

\* the tool is run a second time with the same parameters
PalRunAgain ==
    /\ tool = "PointsAlongLine"
    /\ pc = "done"
    /\ run = 1
    /\ run' = 2
    /\ prev' = out_station
    /\ pc' = "crl_copy"
    /\ UNCHANGED <<fr, tool, in_features, in_fields, route_id_field_name,
                   fields, route_id_field, measure_interval,
                   cross_section_width, normal_turn, exists, the_line,
                   out_route, event_tbl, out_station, out_xs, line_event_tbl,
                   cursors, raised_at, cur, r>>

\* ------------------------------------------------------------- failures
\* a call into the engine raises (arcpy.ExecuteError, a failed read or write):
\* nothing catches it, the method is left where it stands
Running == pc \notin {"done", "aborted", "idle"}

Fail ==
    /\ Running
    /\ raised_at' = pc
    /\ cursors' = ExitWith(cursors)
    /\ pc' = "aborted"
    /\ UNCHANGED <<fr, tool, in_features, in_fields, route_id_field_name,
                   fields, route_id_field, measure_interval,
                   cross_section_width, normal_turn, exists, the_line,
                   out_route, event_tbl, out_station, out_xs, line_event_tbl,
                   run, prev, cur, r>>

\* ------------------------------------------------------------- the tools
\* the parameters a run is started with
InitRun(Inputs, FieldConfigs, IntervalSet, WidthSet) ==
    /\ fr = [start |-> 0, stop |-> 0, step |-> 0, r |-> 0, pc |-> "idle",
             out |-> <<>>, prev |-> <<>>, call |-> 0]
    /\ tool \in Tools
    /\ pc = CASE tool = "CreatePointEventTable" -> "pet_field"
              [] tool = "CreateLineEventTable" -> "cl_field"
              [] OTHER -> "crl_copy"
    /\ in_features \in Inputs
    /\ \E cfg \in FieldConfigs :
          /\ in_fields = cfg[1]
          /\ route_id_field_name = cfg[2]
    /\ fields = NoFields
    /\ route_id_field = <<>>
    /\ measure_interval \in
         IF tool \in {"CreateRouteByLength", "CreateLineEventTable"}
         THEN {0} ELSE IntervalSet
    /\ cross_section_width \in
         IF tool = "StationPointsAndCrossSections" THEN WidthSet ELSE {0}
    /\ normal_turn \in
         IF tool = "StationPointsAndCrossSections" THEN {90, 270} ELSE {90}
    /\ exists = {}
    /\ the_line = <<>>
    /\ out_route = <<>>
    /\ event_tbl = <<>>
    /\ out_station = <<>>
    /\ out_xs = <<>>
    /\ line_event_tbl = <<>>
    /\ cursors = <<>>
    /\ raised_at = ""
    /\ run = 1
    /\ prev = <<>>
    /\ cur = 0
    /\ r = 0

\* every dataset, with the identifier field the parameter names
Init ==
    InitRun(Datasets, {<<(<<F_RID>>), N_RID>>}, Intervals, Widths)

\* one-line datasets, with every field list and every field name parameter
FieldInit ==
    InitRun({d \in Datasets : Len(d) = 1}, FieldLists \X FieldNames,
            {-25, 25}, {0, 10})

Next ==
    \/ CrlCopy \/ CrlUpdateRow \/ CrlUpdateEnd \/ CrlCreateRoutes \/ CrlDelete
    \/ PetGetField \/ PetCreate \/ PetNextRow \/ PetInsert \/ PetExhausted \/ PetReturn
    \/ LocatePoints
    \/ XsCreate \/ XsGetField \/ XsInsert \/ XsReturn
    \/ ClGetField \/ ClCreate \/ ClInsert \/ ClReturn
    \/ PalCleanup \/ PalRunAgain
    \/ Fail

Spec == Init /\ [][Next]_vars

FieldSpec == FieldInit /\ [][Next]_vars

\* ------------------------------------------------------- claims on frange
FrangeDone == fr.pc = "done"

\* the values start + k*step, k = 0, 1, ..., that satisfy Keep, in order of k
Arithmetic(start, step, Keep(_)) ==
    LET n == Cardinality({k \in 0..YieldCap : Keep(start + k * step)})
    IN  [i \in 1..n |-> start + (i - 1) * step]

\* C1: for step > 0 frange(start, stop, step) yields exactly the values
\* start + k*step that are strictly below stop, in increasing order; stop is
\* never yielded, frange(0, 9, 3) = [0, 3, 6], frange(0, 10, 3) = [0, 3, 6, 9],
\* and nothing is yielded when start >= stop.
C1_HalfOpen ==
    (FrangeDone /\ fr.step > 0) =>
        /\ fr.out = Arithmetic(fr.start, fr.step, LAMBDA v : v < fr.stop)
        /\ \A i \in DOMAIN fr.out : fr.out[i] # fr.stop
        /\ \A i, j \in DOMAIN fr.out : i < j => fr.out[i] < fr.out[j]
        /\ (fr.start >= fr.stop => fr.out = <<>>)
        /\ (fr.start = 0 /\ fr.stop = 9 /\ fr.step = 3 => fr.out = <<0, 3, 6>>)
        /\ (fr.start = 0 /\ fr.stop = 10 /\ fr.step = 3 => fr.out = <<0, 3, 6, 9>>)

C1_Witness ==
    FrangeDone /\ fr.start = 0 /\ fr.stop = 9 /\ fr.step = 3 /\ Len(fr.out) = 3

\* C2: for step < 0 and start > stop frange(start, stop, step) yields the
\* decreasing values start, start - |step|, ... that are strictly above stop.
C2_Descending ==
    (FrangeDone /\ fr.step < 0 /\ fr.start > fr.stop) =>
        fr.out = Arithmetic(fr.start, fr.step, LAMBDA v : v > fr.stop)

\* C3: for every step # 0 the generator stops after finitely many values, and
\* a second call with the same arguments yields the same values.
C3_Finite ==
    /\ (fr.step # 0) ~> (FrangeDone /\ fr.call = 2)
    /\ [](FrangeDone /\ fr.call = 2 /\ fr.step # 0 => fr.out = fr.prev)

C3_Witness ==
    FrangeDone /\ fr.call = 2 /\ fr.step < 0 /\ Len(fr.out) > 2 /\ fr.out = fr.prev

\* ---------------------------------------- claims on the point event table
Range(seq) == {seq[i] : i \in DOMAIN seq}

\* C4: for every interval > 0, every row of the event table carries the
\* identifier of an input route and a measure m with
\* first_measure <= m < last_measure of that route (the M of its first and
\* last point).
C4_InRange ==
    measure_interval > 0 =>
        \A i \in DOMAIN event_tbl :
            \E k \in DOMAIN InRoutes :
                LET shape == InRoutes[k].shape
                IN  /\ InRoutes[k].id = event_tbl[i].id
                    /\ shape[1][3] <= event_tbl[i].Measure
                    /\ event_tbl[i].Measure < shape[Len(shape)][3]

C4_Witness ==
    /\ tool = "CreatePointEventTable"
    /\ pc = "done"
    /\ measure_interval = 30
    /\ in_features[1] = LineA
    /\ SubSeq(event_tbl, 1, 2) = <<[id |-> "A", Measure |-> 10],
                                   [id |-> "A", Measure |-> 40]>>

\* the position of a route in the input, by its identifier
RouteIndex(id) == CHOOSE k \in DOMAIN InRoutes : InRoutes[k].id = id

\* C5: the rows of one route are contiguous and strictly increasing in
\* measure, and the blocks of rows follow the order of the routes in the input.
C5_Ordered ==
    \A i, j \in DOMAIN event_tbl :
        i < j =>
            /\ RouteIndex(event_tbl[i].id) <= RouteIndex(event_tbl[j].id)
            /\ (event_tbl[i].id = event_tbl[j].id =>
                    event_tbl[i].Measure < event_tbl[j].Measure)

\* C6: for an interval <= 0 no event row is inserted, for any route.
C6_Rejected ==
    measure_interval <= 0 => event_tbl = <<>>

\* ------------------------------------------ claims on create_route_by_length
\* C7: before the routes are created every copied line has FromMeasure = 0
\* and ToMeasure = its 2D length, whatever measures the input carries; the
\* route of a line runs from measure 0 to the line's length (0 to 100 for the
\* straight 100-unit line A, 0 to 70 for the two-segment line E).
C7_MeasuresByLength ==
    /\ pc \in {"crl_routes", "crl_delete"} =>
          \A i \in DOMAIN in_features :
              /\ the_line[i].id = in_features[i].id
              /\ the_line[i].FromMeasure = <<0>>
              /\ the_line[i].ToMeasure = <<ShapeLength(in_features[i].shape)>>
    /\ "out_route" \in exists =>
          /\ Len(out_route) = Len(in_features)
          /\ \A i \in DOMAIN in_features :
                LET shape == out_route[i].shape
                IN  /\ out_route[i].id = in_features[i].id
                    /\ shape[1][3] = 0
                    /\ shape[Len(shape)][3] = ShapeLength(in_features[i].shape)
                    /\ (in_features[i] = LineA => shape[Len(shape)][3] = 100)
                    /\ (in_features[i] = LineE => shape[Len(shape)][3] = 70)

C7_Witness ==
    /\ "out_route" \in exists
    /\ in_features[1] = LineA
    /\ LineA.shape[1][3] # 0
    /\ out_route[1].shape = << <<0, 0, 0>>, <<100, 0, 100>> >>

\* ------------------------------------------- claims on create_cross_section
\* the station point a cross-section row was built for
StationOf(xs) ==
    CHOOSE s \in Range(out_station) : s.id = xs.id /\ s.Measure = xs.Measure

Minus(p, q) == <<p[1] - q[1], p[2] - q[2]>>
Dot(p, q) == p[1] * q[1] + p[2] * q[2]
Cross(p, q) == p[1] * q[2] - p[2] * q[1]

\* the unit vector at a degrees from +X, counter-clockwise
UnitAt(a) ==
    CASE a = 0 -> <<1, 0>> [] a = 90 -> <<0, 1>>
      [] a = 180 -> <<-1, 0>> [] a = 270 -> <<0, -1>>

\* C8: every cross-section is the vertex list [from, mid, to] with mid the
\* station point unchanged, from = mid + (w/2)(cos b, sin b) and
\* to = mid - (w/2)(cos b, sin b) for the station's angle b and the width w;
\* mid is the midpoint of from and to, and each half has length |w|/2.
C8_ThreePoint ==
    \A i \in DOMAIN out_xs :
        LET s == StationOf(out_xs[i])
            line == out_xs[i].shape
            u == UnitAt(s.LOC_ANGLE)
            w == cross_section_width
        IN  /\ Len(line) = 3
            /\ line[2] = s.xy
            /\ 2 * (line[1][1] - s.xy[1]) = w * u[1]
            /\ 2 * (line[1][2] - s.xy[2]) = w * u[2]
            /\ 2 * (s.xy[1] - line[3][1]) = w * u[1]
            /\ 2 * (s.xy[2] - line[3][2]) = w * u[2]
            /\ line[1][1] + line[3][1] = 2 * line[2][1]
            /\ line[1][2] + line[3][2] = 2 * line[2][2]
            /\ 4 * Dot(Minus(line[1], line[2]), Minus(line[1], line[2])) = w * w
            /\ 4 * Dot(Minus(line[3], line[2]), Minus(line[3], line[2])) = w * w

C8_Witness ==
    /\ pc = "done"
    /\ cross_section_width = 4
    /\ \E i \in DOMAIN out_xs :
          /\ StationOf(out_xs[i]).LOC_ANGLE = 180
          /\ StationOf(out_xs[i]).xy = <<0, 25>>
          /\ out_xs[i].shape = << <<-2, 25>>, <<0, 25>>, <<2, 25>> >>

\* C9 as stated: the three points are colinear and the offsets from the station
\* point to the two ends are orthogonal to (cos b, sin b), b the station's angle.
C9_OrthogonalToBearing ==
    (measure_interval > 0 /\ cross_section_width > 0) =>
    \A i \in DOMAIN out_xs :
        LET s == StationOf(out_xs[i])
            line == out_xs[i].shape
            u == UnitAt(s.LOC_ANGLE)
        IN  /\ Cross(Minus(line[1], line[2]), Minus(line[3], line[2])) = 0
            /\ Dot(Minus(line[1], s.xy), u) = 0
            /\ Dot(Minus(line[3], s.xy), u) = 0

\* C9 amended: the three points are colinear and the offsets from the station
\* point to the two ends lie along (cos b, sin b), b the station's angle: from
\* is |w|/2 ahead or behind on it and to is opposite.  That angle is the NORMAL
\* angle the engine located, so the line through the three points is
\* perpendicular to the direction of the route at the station.
C9_AlongNormal ==
    \A i \in DOMAIN out_xs :
        LET s == StationOf(out_xs[i])
            line == out_xs[i].shape
            u == UnitAt(s.LOC_ANGLE)
            t == UnitAt(TangentAt(RouteWithId(out_route, s.id).shape, s.Measure))
        IN  /\ Cross(Minus(line[1], line[2]), Minus(line[3], line[2])) = 0
            /\ Cross(Minus(line[1], s.xy), u) = 0
            /\ Cross(Minus(line[3], s.xy), u) = 0
            /\ 2 * Dot(Minus(line[1], s.xy), u) = cross_section_width
            /\ 2 * Dot(Minus(line[3], s.xy), u) = -cross_section_width
            /\ Dot(u, t) = 0
            /\ Dot(Minus(line[1], s.xy), t) = 0
            /\ Dot(Minus(line[3], s.xy), t) = 0

C9_Witness ==
    /\ pc = "done"
    /\ cross_section_width = 10
    /\ \E i \in DOMAIN out_xs :
          /\ out_xs[i].id = "E"
          /\ out_xs[i].Measure = 50
          /\ out_xs[i].shape[2] = <<40, 10>>
          /\ out_xs[i].shape[1] \in {<<35, 10>>, <<45, 10>>}

\* ------------------------------------------------------ claims end to end
EndToEndRun ==
    /\ tool = "StationPointsAndCrossSections"
    /\ pc = "done"
    /\ in_features = <<LineA>>
    /\ measure_interval = 25
    /\ cross_section_width = 10

EndToEndEvents ==
    event_tbl = <<[id |-> "A", Measure |-> 0], [id |-> "A", Measure |-> 25],
                  [id |-> "A", Measure |-> 50], [id |-> "A", Measure |-> 75]>>

EndToEndPoints(angle) ==
    out_station =
        <<[id |-> "A", Measure |-> 0, xy |-> <<0, 0>>, LOC_ANGLE |-> angle],
          [id |-> "A", Measure |-> 25, xy |-> <<25, 0>>, LOC_ANGLE |-> angle],
          [id |-> "A", Measure |-> 50, xy |-> <<50, 0>>, LOC_ANGLE |-> angle],
          [id |-> "A", Measure |-> 75, xy |-> <<75, 0>>, LOC_ANGLE |-> angle]>>

\* C10 as stated: for the line (0,0)-(100,0), identifier "A", interval 25 and
\* width 10 the events are at 0, 25, 50, 75, the station points are (0,0),
\* (25,0), (50,0), (75,0), each with angle 0, and the cross-section at measure
\* 50 is (50,5), (50,0), (50,-5).
C10_EndToEndBearingZero ==
    EndToEndRun =>
        /\ EndToEndEvents
        /\ EndToEndPoints(0)
        /\ Len(out_xs) = 4
        /\ out_xs[3] = [shape |-> << <<50, 5>>, <<50, 0>>, <<50, -5>> >>,
                        id |-> "A", Measure |-> 50]

\* C10 amended: same run, same events and station points, but the angle
\* stored with each station is the NORMAL angle of the route, 90 or 270
\* degrees, never the direction 0 of the line; the cross-section at measure 50
\* is (50,5), (50,0), (50,-5) for 90 and (50,-5), (50,0), (50,5) for 270.
C10_EndToEndNormal ==
    EndToEndRun =>
        /\ EndToEndEvents
        /\ \E angle \in {90, 270} : EndToEndPoints(angle)
        /\ Len(out_xs) = 4
        /\ out_xs[3].id = "A" /\ out_xs[3].Measure = 50
        /\ EndToEndPoints(90) =>
              out_xs[3].shape = << <<50, 5>>, <<50, 0>>, <<50, -5>> >>
        /\ EndToEndPoints(270) =>
              out_xs[3].shape = << <<50, -5>>, <<50, 0>>, <<50, 5>> >>

C10_Witness ==
    /\ EndToEndRun
    /\ EndToEndPoints(90)
    /\ out_xs[3].shape = << <<50, 5>>, <<50, 0>>, <<50, -5>> >>

\* C11: for a width <= 0 create_cross_section writes no cross-section.
C11_WidthRejected ==
    (tool = "StationPointsAndCrossSections" /\ cross_section_width <= 0) =>
        out_xs = <<>>

\* C18: create_cross_section emits exactly one cross-section per station
\* point, with the station's identifier and measure, and inserts them in
\* non-decreasing (route_id, measure) order whatever the stored order of the
\* station points.
C18_OnePerStationInOrder ==
    /\ Len(out_xs) <= Len(out_station)
    /\ \A i, j \in DOMAIN out_xs :
          i < j =>
              \/ IdRank(out_xs[i].id) < IdRank(out_xs[j].id)
              \/ /\ out_xs[i].id = out_xs[j].id
                 /\ out_xs[i].Measure <= out_xs[j].Measure
    /\ \A i \in DOMAIN out_xs :
          \E k \in DOMAIN out_station :
              /\ out_station[k].id = out_xs[i].id
              /\ out_station[k].Measure = out_xs[i].Measure
              /\ out_station[k].xy = out_xs[i].shape[2]
    /\ (tool = "StationPointsAndCrossSections" /\ pc = "done") =>
          /\ Len(out_xs) = Len(out_station)
          /\ \A k \in DOMAIN out_station :
                Cardinality({i \in DOMAIN out_xs :
                               /\ out_xs[i].id = out_station[k].id
                               /\ out_xs[i].Measure = out_station[k].Measure}) = 1

C18_Witness ==
    /\ tool = "StationPointsAndCrossSections"
    /\ pc = "done"
    /\ Len(out_station) = 6
    /\ out_station[1].id = "B"
    /\ out_station[3].id = "A"
    /\ out_xs[1].id = "A"
    /\ out_xs[6].id = "B" /\ out_xs[6].Measure = 25

\* C19: create_route_by_length never changes the input dataset: the measure
\* fields exist only on the in_memory copy, and the rows and geometries of the
\* input stay as they were while the copy is updated and the route is written.
C19_InputUnchanged ==
    /\ [][in_features' = in_features]_vars
    /\ [](\A i \in DOMAIN in_features :
             DOMAIN in_features[i] = DOMAIN LineA)
    /\ [](\A i \in DOMAIN the_line :
             {"FromMeasure", "ToMeasure"} \subseteq DOMAIN the_line[i])

C19_Witness ==
    /\ tool = "CreateRouteByLength"
    /\ pc = "done"
    /\ in_features = <<LineA>>
    /\ out_route[1].shape[2][3] = 100
    /\ in_features[1].shape[2][3] = 60

\* ------------------------------------------ claims on the line event table
\* C16: CreateLineEventTable.execute writes one row per input route, in input
\* order, holding the route's identifier, FromMeasure = M of its first point
\* and ToMeasure = M of its last point.
C16_OneRowPerRoute ==
    tool = "CreateLineEventTable" =>
        /\ Len(line_event_tbl) <= Len(in_features)
        /\ (pc = "done" => Len(line_event_tbl) = Len(in_features))
        /\ \A i \in DOMAIN line_event_tbl :
              LET shape == in_features[i].shape
              IN  line_event_tbl[i] =
                      [id |-> in_features[i].id, FromMeasure |-> shape[1][3],
                       ToMeasure |-> shape[Len(shape)][3]]

C16_Witness ==
    /\ tool = "CreateLineEventTable"
    /\ pc = "done"
    /\ line_event_tbl = <<[id |-> "E", FromMeasure |-> 5, ToMeasure |-> 75],
                          [id |-> "A", FromMeasure |-> 10, ToMeasure |-> 60]>>

\* C17: a multi-part input line is rejected by route building: no route is
\* produced for it.
C17_MultipartRejected ==
    "out_route" \in exists =>
        \A i \in DOMAIN in_features :
            IsMultipart(in_features[i].shape) =>
                \A k \in DOMAIN out_route : out_route[k].id # in_features[i].id

\* --------------------------------------------- claims on resources and runs
Finished == pc \in {"done", "aborted"}

\* the temporary datasets a tool creates
Temporaries ==
    CASE tool = "CreateRouteByLength" -> {"the_line"}
      [] tool \in {"PointsAlongLine", "StationPointsAndCrossSections"} ->
            {"the_line", "event_tbl", "Point Events"}
      [] OTHER -> {}

\* C13: after every run of PointsAlongLine.execute,
\* StationPointsAndCrossSections.execute or create_route_by_length, completed
\* or aborted, none of the temporary datasets it created still exists.
C13_TemporariesGone ==
    Finished => exists \cap Temporaries = {}

\* C14: every cursor is released on all exit paths, also when an error is
\* raised while rows are read or written; no two write cursors are open on
\* the same table; and cursors are open only inside the loops over rows.
C14_CursorsReleased ==
    /\ Finished => cursors = <<>>
    /\ pc \notin {"crl_update", "pet_rows", "pet_frange", "xs_rows", "cl_rows"}
          => cursors = <<>>
    /\ \A i, j \in DOMAIN cursors :
          (i # j /\ cursors[i].on = cursors[j].on) =>
              (cursors[i].mode = "search" /\ cursors[j].mode = "search")

C14_Witness ==
    /\ pc = "aborted"
    /\ raised_at = "pet_frange"
    /\ Len(event_tbl) = 2
    /\ cursors = <<>>

\* C15: a second run of PointsAlongLine.execute on the same input and
\* parameters leaves the same station points as the first: none duplicated,
\* none missing.
C15_Idempotent ==
    (tool = "PointsAlongLine" /\ run = 2 /\ pc = "done") =>
        /\ out_station = prev
        /\ Cardinality(Range(out_station)) = Len(out_station)
        /\ \A i \in DOMAIN in_features :
              \E k \in DOMAIN out_station :
                  out_station[k].id = in_features[i].id /\ out_station[k].Measure = 0

C15_Witness ==
    /\ tool = "PointsAlongLine"
    /\ run = 2
    /\ pc = "done"
    /\ in_features = <<LineA>>
    /\ measure_interval = 25
    /\ Len(prev) = 4
    /\ out_station[4].xy = <<75, 0>>

\* C20: whenever the searched dataset has a field named exactly as the
\* parameter, get_field returns that field, whatever the other fields and
\* their order; so the identifier column of every output table has the type
\* and the length of the requested identifier field.
RequestedField == FieldNamed(in_fields, route_id_field_name)

OutputTables == {"event_tbl", "out_station", "out_xs", "line_event_tbl"}

C20_ExactField ==
    HasField(in_fields, route_id_field_name) =>
        /\ route_id_field # <<>> =>
              route_id_field[1].name = route_id_field_name
        /\ \A t \in OutputTables :
              fields[t] # <<>> =>
                  /\ fields[t][1].name = route_id_field_name
                  /\ fields[t][1].type = RequestedField.type
                  /\ fields[t][1].length = RequestedField.length

\* C12: a configuration error (interval <= 0, width <= 0, or an identifier
\* field name the input dataset does not have) is detected before any I/O: no
\* dataset is created and no row is written in such a run.
HasInterval ==
    tool \in {"CreatePointEventTable", "StationPointsAndCrossSections",
              "PointsAlongLine"}

ConfigurationError ==
    \/ HasInterval /\ measure_interval <= 0
    \/ tool = "StationPointsAndCrossSections" /\ cross_section_width <= 0
    \/ ~HasField(in_fields, route_id_field_name)

C12_DetectedBeforeIO ==
    ConfigurationError =>
        /\ exists = {}
        /\ the_line = <<>> /\ out_route = <<>> /\ event_tbl = <<>>
        /\ out_station = <<>> /\ out_xs = <<>> /\ line_event_tbl = <<>>

====
